---- MODULE Spec2Model ----
(***************************************************************************)
(* nginx_memcache/middleware.py: UpdateCacheMiddleware.                    *)
(*                                                                         *)
(* The module-level settings (is_enabled, do_cache_https,                  *)
(* https_headers_to_check), the middleware instance built by __init__,     *)
(* and process_response, followed statement by statement for every worker  *)
(* thread that is inside it.  Python strings that the code folds with      *)
(* upper(), lower() and replace() are sequences of one-character strings,  *)
(* so that the folding is computed and not assumed.                        *)
(***************************************************************************)
EXTENDS Integers, Sequences, FiniteSets, TLC

\* ------------------------------------------------------------------ bounds

\* Worker threads that may be inside process_response at the same time.
MaxThreads == 2

Threads == 1..MaxThreads

\* ----------------------------------------------------------- Python strings

ascii_uppercase ==
    <<"A","B","C","D","E","F","G","H","I","J","K","L","M",
      "N","O","P","Q","R","S","T","U","V","W","X","Y","Z">>

ascii_lowercase ==
    <<"a","b","c","d","e","f","g","h","i","j","k","l","m",
      "n","o","p","q","r","s","t","u","v","w","x","y","z">>

char_upper(c) ==
    IF \E k \in DOMAIN ascii_lowercase : ascii_lowercase[k] = c
    THEN ascii_uppercase[CHOOSE k \in DOMAIN ascii_lowercase : ascii_lowercase[k] = c]
    ELSE c

char_lower(c) ==
    IF \E k \in DOMAIN ascii_uppercase : ascii_uppercase[k] = c
    THEN ascii_lowercase[CHOOSE k \in DOMAIN ascii_uppercase : ascii_uppercase[k] = c]
    ELSE c

\* str.upper()
upper(s) == [k \in DOMAIN s |-> char_upper(s[k])]

\* str.lower()
lower(s) == [k \in DOMAIN s |-> char_lower(s[k])]

\* str.replace(old, new) for one-character old and new
replace(s, old, new) == [k \in DOMAIN s |-> IF s[k] = old THEN new ELSE s[k]]

\* 'HTTP_' + header.upper().replace('-', '_')
meta_key(header) == <<"H","T","T","P","_">> \o replace(upper(header), "-", "_")

\* ------------------------------------------------------------------ values

None == "None"

X_Forwarded_Proto ==
    <<"X","-","F","o","r","w","a","r","d","e","d","-","P","r","o","t","o">>

X_Forwarded_SSL ==
    <<"X","-","F","o","r","w","a","r","d","e","d","-","S","S","L">>

x_forwarded_ssl ==
    <<"x","-","f","o","r","w","a","r","d","e","d","-","s","s","l">>

HTTP_X_FORWARDED_PROTO ==
    <<"H","T","T","P","_","X","_","F","O","R","W","A","R","D","E","D","_",
      "P","R","O","T","O">>

HTTP_X_FORWARDED_SSL ==
    <<"H","T","T","P","_","X","_","F","O","R","W","A","R","D","E","D","_",
      "S","S","L">>

\* The built-in value of CACHE_NGINX_ALTERNATIVE_SSL_HEADERS.
default_https_headers ==
    << <<X_Forwarded_Proto, <<"H","T","T","P","S">> >>,
       <<X_Forwarded_SSL, <<"o","n">> >> >>

\* Values a deployment's settings may give CACHE_NGINX_ALTERNATIVE_SSL_HEADERS.
HeaderSettings ==
    { default_https_headers,
      << >>,
      << <<x_forwarded_ssl, <<"O","n">> >> >> }

\* request.META: the signal headers a request carries, under Django's keys.
ProtoValues == { <<"h","t","t","p","s">>, <<"h","t","t","p">> }
SSLValues == { <<"O","N">>, <<"o","f","f">> }

NoHeaders == [k \in {} |-> << >>]

BothHeaders(p, s) ==
    [k \in {HTTP_X_FORWARDED_PROTO, HTTP_X_FORWARDED_SSL} |->
        IF k = HTTP_X_FORWARDED_PROTO THEN p ELSE s]

Metas ==
    { NoHeaders }
    \cup { [k \in {HTTP_X_FORWARDED_PROTO} |-> p] : p \in ProtoValues }
    \cup { [k \in {HTTP_X_FORWARDED_SSL} |-> s] : s \in SSLValues }
    \cup { BothHeaders(p, s) : p \in ProtoValues, s \in SSLValues }

Methods == {"GET", "HEAD"}
StatusCodes == {200, 404}

Requests ==
    [method : Methods, user_is_authenticated : BOOLEAN,
     is_secure : BOOLEAN, META : Metas]

Responses == [status_code : StatusCodes, content : {"<html>"}]

\* Arguments __init__ may be given.
CacheTimeouts == {0, 300}
PageVersionFns == {None, "page_version_fn"}
LookupIdentifiers == {None, "example.com"}
SupplementaryIdentifiers == {None}

\* dict.get(key, None): the value, or None
dict_get(d, key) ==
    IF key \in DOMAIN d
    THEN [is_none |-> FALSE, str |-> d[key]]
    ELSE [is_none |-> TRUE, str |-> << >>]

\* ------------------------------------------------------------------- state

VARIABLES
    is_enabled,              \* module global, line 7
    do_cache_https,          \* module global, line 9
    https_headers_to_check,  \* module global, lines 11-18
    middleware,              \* the UpdateCacheMiddleware instance
    pc,                      \* per thread: the statement it is at
    request,                 \* per thread: the request argument
    response,                \* per thread: the response argument
    idx,                     \* per thread: position of the for loop of line 85
    reads,                   \* per thread: what the call has read so far, in order
    cache_calls,             \* per thread: the arguments of each cache_response call
    result                   \* per thread: how the call ended

vars ==
    <<is_enabled, do_cache_https, https_headers_to_check, middleware,
      pc, request, response, idx, reads, cache_calls, result>>

globals == <<is_enabled, do_cache_https, https_headers_to_check>>

NoInstance ==
    [constructed |-> FALSE]

NoRequest == [method |-> None]
NoResponse == [status_code |-> None]
Pending == [kind |-> "pending"]

Init ==
    /\ is_enabled \in BOOLEAN
    /\ do_cache_https \in BOOLEAN
    /\ https_headers_to_check \in HeaderSettings
    /\ middleware = NoInstance
    /\ pc = [t \in Threads |-> "idle"]
    /\ request = [t \in Threads |-> NoRequest]
    /\ response = [t \in Threads |-> NoResponse]
    /\ idx = [t \in Threads |-> 0]
    /\ reads = [t \in Threads |-> << >>]
    /\ cache_calls = [t \in Threads |-> << >>]
    /\ result = [t \in Threads |-> Pending]

\* ---------------------------------------------------------------- __init__

UpdateCacheMiddleware_init(cache_timeout, page_version_fn, anonymous_only, lookup_identifier, supplementary_identifier) ==
    /\ ~middleware.constructed
    /\ middleware' =
         [constructed |-> TRUE,
          cache_timeout |-> cache_timeout,
          page_version_fn |-> page_version_fn,
          anonymous_only |-> anonymous_only,
          lookup_identifier |-> lookup_identifier,
          supplementary_identifier |-> supplementary_identifier]
    /\ UNCHANGED <<globals, pc, request, response, idx, reads, cache_calls,
                   result>>

\* -------------------------------------------------------- process_response

Return(t) ==
    /\ result' = [result EXCEPT ![t] = [kind |-> "return", value |-> response[t]]]
    /\ pc' = [pc EXCEPT ![t] = "done"]

Raise(t, exception) ==
    /\ result' = [result EXCEPT ![t] = [kind |-> "raise", exception |-> exception]]
    /\ pc' = [pc EXCEPT ![t] = "done"]

Goto(t, label) ==
    /\ pc' = [pc EXCEPT ![t] = label]
    /\ UNCHANGED result

Read(t, what) ==
    reads' = [reads EXCEPT ![t] = @ \o what]

\* The framework hands a finished request/response pair to the middleware.
process_response_call(t, req, resp) ==
    /\ middleware.constructed
    /\ pc[t] = "idle"
    /\ request' = [request EXCEPT ![t] = req]
    /\ response' = [response EXCEPT ![t] = resp]
    /\ pc' = [pc EXCEPT ![t] = "line65"]
    /\ UNCHANGED <<globals, middleware, idx, reads, cache_calls, result>>

\* What the condition of line 65 reads, left to right, with `or` short-circuit.
line65_reads(t) ==
    <<"is_enabled">>
    \o (IF is_enabled THEN <<"request.method">> ELSE << >>)
    \o (IF is_enabled /\ request[t].method = "GET"
        THEN <<"response.status_code">> ELSE << >>)

\* Line 65 without its status test.
line65_condition_without_status(t) ==
    \/ ~is_enabled
    \/ request[t].method # "GET"

\* if not is_enabled or request.method != 'GET' or response.status_code != 200
line65_condition(t) ==
    \/ ~is_enabled
    \/ request[t].method # "GET"
    \/ response[t].status_code # 200

\* Line 65 without the return of line 69: the call goes on to line 72.
gate_enabled_method_status_without_return(t) ==
    /\ pc[t] = "line65"
    /\ Read(t, line65_reads(t))
    /\ Goto(t, "line72")
    /\ UNCHANGED <<globals, middleware, request, response, idx, cache_calls>>

gate_enabled_method_status(t) ==
    /\ pc[t] = "line65"
    /\ Read(t, line65_reads(t))
    /\ IF line65_condition(t) THEN Return(t) ELSE Goto(t, "line72")
    /\ UNCHANGED <<globals, middleware, request, response, idx, cache_calls>>

\* What the condition of line 72 reads: `and` short-circuit.
line72_reads(t) ==
    <<"self.anonymous_only">>
    \o (IF middleware.anonymous_only THEN <<"request.user">> ELSE << >>)

\* Line 72 with the test of the user inverted.
line72_condition_inverted(t) ==
    /\ middleware.anonymous_only
    /\ ~request[t].user_is_authenticated

\* if self.anonymous_only and request.user.is_authenticated()
line72_condition(t) ==
    /\ middleware.anonymous_only
    /\ request[t].user_is_authenticated

gate_anonymous_only(t) ==
    /\ pc[t] = "line72"
    /\ Read(t, line72_reads(t))
    /\ IF line72_condition(t) THEN Return(t) ELSE Goto(t, "line76")
    /\ UNCHANGED <<globals, middleware, request, response, idx, cache_calls>>

\* Line 78 without the test of the secure flag.
line78_condition_dropped(t) == FALSE

\* if request.is_secure()
line78_condition(t) == request[t].is_secure

\* What lines 75-84 read.
line76_reads(t) ==
    <<"do_cache_https">>
    \o (IF ~do_cache_https THEN <<"request.is_secure">> ELSE << >>)
    \o (IF ~do_cache_https /\ ~line78_condition(t)
        THEN <<"https_headers_to_check">> ELSE << >>)

\* Lines 75-84: the secure flag, then on to the loop over the signal headers.
gate_https(t) ==
    /\ pc[t] = "line76"
    /\ Read(t, line76_reads(t))
    /\ IF do_cache_https
       THEN Goto(t, "line98") /\ UNCHANGED idx
       ELSE IF line78_condition(t)
            THEN Return(t) /\ UNCHANGED idx
            ELSE Goto(t, "line85") /\ idx' = [idx EXCEPT ![t] = 1]
    /\ UNCHANGED <<globals, middleware, request, response, cache_calls>>

\* request.META.get(_header, None), for the pair the loop is at
header_lookup(t) ==
    dict_get(request[t].META, meta_key(https_headers_to_check[idx[t]][1]))

\* request.META.get(_header, None).lower() == significant_value.lower()
line89_condition(t) ==
    lower(header_lookup(t).str) = lower(https_headers_to_check[idx[t]][2])

\* Lines 85-95: one turn of the for loop, or its end.
for_header(t) ==
    /\ pc[t] = "line85"
    /\ IF idx[t] > Len(https_headers_to_check)
       THEN /\ Goto(t, "line98")
            /\ UNCHANGED <<idx, reads>>
       ELSE /\ Read(t, <<"request.META">>)
            /\ IF header_lookup(t).is_none
               THEN \* None has no lower()
                    Raise(t, "AttributeError") /\ UNCHANGED idx
               ELSE IF line89_condition(t)
                    THEN Return(t) /\ UNCHANGED idx
                    ELSE /\ Goto(t, "line85")
                         /\ idx' = [idx EXCEPT ![t] = @ + 1]
    /\ UNCHANGED <<globals, middleware, request, response, cache_calls>>

\* The keyword arguments of lines 98-105.
cache_response_args(t) ==
    [request |-> request[t],
     response |-> response[t],
     cache_timeout |-> middleware.cache_timeout,
     page_version_fn |-> middleware.page_version_fn,
     lookup_identifier |-> middleware.lookup_identifier,
     supplementary_identifier |-> middleware.supplementary_identifier]

\* How a call of cache_response (nginx_memcache/cache.py) may end: the store
\* write succeeds, or the store is unreachable and the call raises.
cache_response_outcomes == {"ok", "raises"}

\* Lines 98-106 keeping the host on the instance when no lookup_identifier
\* was given.
call_cache_response_keeping_host(t) ==
    /\ pc[t] = "line98"
    /\ cache_calls' = [cache_calls EXCEPT ![t] = Append(@, cache_response_args(t))]
    /\ middleware' =
         [middleware EXCEPT !.lookup_identifier =
            IF @ = None THEN "request.get_host()" ELSE @]
    /\ \E outcome \in cache_response_outcomes :
          IF outcome = "ok" THEN Return(t) ELSE Raise(t, "CacheError")
    /\ UNCHANGED <<globals, request, response, idx, reads>>

\* Lines 98-106: the call is not inside a try, so what it raises goes on to
\* the caller of process_response.
call_cache_response(t) ==
    /\ pc[t] = "line98"
    /\ cache_calls' = [cache_calls EXCEPT ![t] = Append(@, cache_response_args(t))]
    /\ \E outcome \in cache_response_outcomes :
          IF outcome = "ok" THEN Return(t) ELSE Raise(t, "CacheError")
    /\ UNCHANGED <<globals, middleware, request, response, idx, reads>>

\* The framework takes the result; the thread is free for the next request.
process_response_end(t) ==
    /\ pc[t] = "done"
    /\ pc' = [pc EXCEPT ![t] = "idle"]
    /\ request' = [request EXCEPT ![t] = NoRequest]
    /\ response' = [response EXCEPT ![t] = NoResponse]
    /\ idx' = [idx EXCEPT ![t] = 0]
    /\ reads' = [reads EXCEPT ![t] = << >>]
    /\ cache_calls' = [cache_calls EXCEPT ![t] = << >>]
    /\ result' = [result EXCEPT ![t] = Pending]
    /\ UNCHANGED <<globals, middleware>>

\* One statement of process_response, by thread t.
process_response_step(t) ==
    \/ gate_enabled_method_status(t)
    \/ gate_anonymous_only(t)
    \/ gate_https(t)
    \/ for_header(t)
    \/ call_cache_response(t)
    \/ process_response_end(t)

\* A server that hands the middleware one request at a time.
Next ==
    \/ \E ct \in CacheTimeouts, fn \in PageVersionFns, ao \in BOOLEAN,
          li \in LookupIdentifiers, si \in SupplementaryIdentifiers :
          UpdateCacheMiddleware_init(ct, fn, ao, li, si)
    \/ \E t \in Threads, req \in Requests, resp \in Responses :
          /\ \A u \in Threads : pc[u] = "idle"
          /\ process_response_call(t, req, resp)
    \/ \E t \in Threads : process_response_step(t)

Spec == Init /\ [][Next]_vars

\* ------------------------------------------------- threads inside at once

Req(method, user_is_authenticated, is_secure, META) ==
    [method |-> method, user_is_authenticated |-> user_is_authenticated,
     is_secure |-> is_secure, META |-> META]

Resp(status_code) == [status_code |-> status_code, content |-> "<html>"]

\* The request mix of the threaded server: one request for every way out of
\* process_response.
ConcMetas ==
    { NoHeaders,
      BothHeaders(<<"h","t","t","p">>, <<"O","N">>),
      BothHeaders(<<"h","t","t","p">>, <<"o","f","f">>) }

ConcTraffic ==
    { <<Req("GET", a, FALSE, m), Resp(200)>> : a \in BOOLEAN, m \in ConcMetas }
    \cup { <<Req("GET", FALSE, TRUE, NoHeaders), Resp(200)>>,
           <<Req("HEAD", FALSE, FALSE, NoHeaders), Resp(200)>>,
           <<Req("GET", FALSE, FALSE, NoHeaders), Resp(404)>> }

\* After construction with the keyword defaults of lines 40-41.
ConcInit ==
    /\ is_enabled \in BOOLEAN
    /\ do_cache_https \in BOOLEAN
    /\ https_headers_to_check \in HeaderSettings
    /\ \E ao \in BOOLEAN :
          middleware =
            [constructed |-> TRUE,
             cache_timeout |-> 300,
             page_version_fn |-> "page_version_fn",
             anonymous_only |-> ao,
             lookup_identifier |-> None,
             supplementary_identifier |-> None]
    /\ pc = [t \in Threads |-> "idle"]
    /\ request = [t \in Threads |-> NoRequest]
    /\ response = [t \in Threads |-> NoResponse]
    /\ idx = [t \in Threads |-> 0]
    /\ reads = [t \in Threads |-> << >>]
    /\ cache_calls = [t \in Threads |-> << >>]
    /\ result = [t \in Threads |-> Pending]

\* A threaded server: any thread may enter while others are inside, and the
\* threads' statements interleave.
ConcNext ==
    \/ \E t \in Threads, io \in ConcTraffic : process_response_call(t, io[1], io[2])
    \/ \E t \in Threads : process_response_step(t)

ConcSpec == ConcInit /\ [][ConcNext]_vars

\* ------------------------------------------------------------ properties

\* A call is under way or has ended in thread t.
Called(t) == pc[t] # "idle"

Ended(t) == pc[t] = "done"

Returned(t) == Ended(t) /\ result[t] = [kind |-> "return", value |-> response[t]]

Raised(t, exception) ==
    Ended(t) /\ result[t] = [kind |-> "raise", exception |-> exception]

\* The request is a GET answered 200 while caching is enabled.
PassesMethodStatus(t) ==
    /\ is_enabled
    /\ request[t].method = "GET"
    /\ response[t].status_code = 200

\* The caller is anonymous, or anonymous_only is off.
PassesAuthentication(t) ==
    ~(middleware.anonymous_only /\ request[t].user_is_authenticated)

\* The i-th configured signal header, looked up in the request without regard
\* to the case of its name.
HeaderPresent(req, i) ==
    meta_key(https_headers_to_check[i][1]) \in DOMAIN req.META

\* The i-th configured pair matches: its header is present with the expected
\* value, ignoring case.
PairMatches(req, i) ==
    /\ HeaderPresent(req, i)
    /\ lower(req.META[meta_key(https_headers_to_check[i][1])])
         = lower(https_headers_to_check[i][2])

SomePairMatches(req) ==
    \E i \in DOMAIN https_headers_to_check : PairMatches(req, i)

\* C1: a call whose request is not a GET, or whose response is not a 200,
\* never invokes cache_response, whatever the configuration, the headers and
\* the caller.
C1_NonGetOrNon200NeverCached ==
    \A t \in Threads :
        (Called(t) /\ (request[t].method # "GET" \/ response[t].status_code # 200))
            => cache_calls[t] = << >>

\* Scenario D under the least favourable configuration: caching enabled,
\* HEAD answered 200, anonymous caller, and the call has returned.
C1_Witness ==
    \E t \in Threads :
        /\ Returned(t)
        /\ is_enabled /\ do_cache_https /\ ~middleware.anonymous_only
        /\ request[t].method = "HEAD"
        /\ response[t].status_code = 200

\* C2: with include_https off, a GET/200 past the authentication gate and not
\* flagged secure, a configured signal header that the request lacks is a
\* non-match: process_response does not raise on it.
C2_AbsentHeaderIsNonMatch ==
    \A t \in Threads : ~Raised(t, "AttributeError")

\* C3: for a GET/200 past the authentication gate, with include_https off and
\* the secure flag off: if some configured pair matches, cache_response is not
\* invoked; if none matches, it is invoked exactly once.
C3_MatchRejectsElseAdmits ==
    \A t \in Threads :
        (/\ Ended(t)
         /\ PassesMethodStatus(t)
         /\ PassesAuthentication(t)
         /\ ~do_cache_https
         /\ ~request[t].is_secure)
            => IF SomePairMatches(request[t])
               THEN cache_calls[t] = << >>
               ELSE Len(cache_calls[t]) = 1

\* C4: when cache_response raises, process_response does not pass the failure
\* on: a call that invoked cache_response ends by returning the response.
C4_StoreFailureNotPropagated ==
    \A t \in Threads :
        (Ended(t) /\ cache_calls[t] # << >>) => Returned(t)

\* C5: every call ends by returning the response it was given.
C5_AlwaysReturnsResponse ==
    \A t \in Threads : Ended(t) => Returned(t)

\* C6: when anonymous_only is set and the caller is authenticated,
\* cache_response is not invoked and the call ends by returning the response,
\* whatever the transport-security configuration and headers.
C6_AuthenticatedNeverCached ==
    \A t \in Threads :
        (Called(t) /\ middleware.anonymous_only /\ request[t].user_is_authenticated)
            => /\ cache_calls[t] = << >>
               /\ Ended(t) => Returned(t)

\* Scenario B: a GET/200 of an authenticated caller rejected at line 73, after
\* the user was read.
C6_Witness ==
    \E t \in Threads :
        /\ Returned(t)
        /\ PassesMethodStatus(t)
        /\ middleware.anonymous_only /\ request[t].user_is_authenticated
        /\ reads[t][Len(reads[t])] = "request.user"

\* C7: with include_https off and request.is_secure() true, cache_response is
\* not invoked and the signal-header list and the request headers are not
\* consulted.
C7_SecureNeverCached ==
    \A t \in Threads :
        (Called(t) /\ ~do_cache_https /\ request[t].is_secure)
            => /\ cache_calls[t] = << >>
               /\ \A k \in DOMAIN reads[t] :
                     reads[t][k] \notin {"https_headers_to_check", "request.META"}
               /\ Ended(t) => Returned(t)

\* A secure GET/200 past the authentication gate rejected at line 80, with
\* signal headers configured and present in the request.
C7_Witness ==
    \E t \in Threads :
        /\ Returned(t)
        /\ PassesMethodStatus(t) /\ PassesAuthentication(t)
        /\ ~do_cache_https /\ request[t].is_secure
        /\ SomePairMatches(request[t])
        /\ reads[t][Len(reads[t])] = "request.is_secure"

\* C8: a cache_timeout that is not a positive integer, or a missing version
\* function, makes construction fail, so that no instance and no call of
\* process_response has such a configuration.
C8_InvalidConfigurationFailsConstruction ==
    middleware.constructed
        => /\ middleware.cache_timeout > 0
           /\ middleware.page_version_fn # None

\* The gate a read belongs to: 1 kill switch, 2 method/status,
\* 3 authentication, 4 transport security.
GateOf(read) ==
    CASE read = "is_enabled" -> 1
      [] read \in {"request.method", "response.status_code"} -> 2
      [] read \in {"self.anonymous_only", "request.user"} -> 3
      [] OTHER -> 4

LastGateRead(t) ==
    IF reads[t] = << >> THEN 0 ELSE GateOf(reads[t][Len(reads[t])])

\* C9: the gates are evaluated in the order kill switch, method/status,
\* authentication, transport security, and a call rejected by a gate reads
\* nothing of a later gate: not the user, the secure flag or the headers when
\* caching is disabled or method/status rejects, and not the secure flag or
\* the headers when the authentication gate rejects.
C9_GatesInOrderShortCircuit ==
    \A t \in Threads :
        /\ \A j, k \in DOMAIN reads[t] :
              j < k => GateOf(reads[t][j]) <= GateOf(reads[t][k])
        /\ (Called(t) /\ ~is_enabled) => LastGateRead(t) <= 1
        /\ (Called(t) /\ ~PassesMethodStatus(t)) => LastGateRead(t) <= 2
        /\ (Called(t) /\ ~PassesAuthentication(t)) => LastGateRead(t) <= 3

\* A call that went through all four gates in order and reached the headers.
C9_Witness ==
    \E t \in Threads :
        /\ Ended(t)
        /\ reads[t] = <<"is_enabled", "request.method", "response.status_code",
                        "self.anonymous_only", "request.user", "do_cache_https",
                        "request.is_secure", "https_headers_to_check",
                        "request.META", "request.META">>

\* should_cache as a function of one request, its response and the
\* configuration: the call gets as far as line 98.
Admits(req, resp) ==
    /\ is_enabled
    /\ req.method = "GET"
    /\ resp.status_code = 200
    /\ ~(middleware.anonymous_only /\ req.user_is_authenticated)
    /\ \/ do_cache_https
       \/ /\ ~req.is_secure
          /\ \A i \in DOMAIN https_headers_to_check :
                HeaderPresent(req, i) /\ ~PairMatches(req, i)

\* Once the instance is constructed its fields stay as they are, and so do
\* the module's flags.
ConfigurationUnchanged ==
    /\ middleware.constructed => middleware' = middleware
    /\ globals' = globals

OutcomeIsOwn(t) ==
    Ended(t) =>
        cache_calls[t] =
            IF Admits(request[t], response[t])
            THEN << [request |-> request[t],
                     response |-> response[t],
                     cache_timeout |-> middleware.cache_timeout,
                     page_version_fn |-> middleware.page_version_fn,
                     lookup_identifier |-> middleware.lookup_identifier,
                     supplementary_identifier |->
                         middleware.supplementary_identifier] >>
            ELSE << >>

\* C10: however the calls of the threads interleave, no step of a call
\* changes the instance's fields or the module's flags, and a call that has
\* ended has invoked cache_response once with the instance's timeout, version
\* function and identifiers if its own request and response are admitted
\* under the configuration, and not at all otherwise.
C10_Stateless ==
    /\ [][ConfigurationUnchanged]_vars
    /\ [](\A t \in Threads : OutcomeIsOwn(t))

\* An admitted call has ended while another thread is inside the header loop.
C10_Witness ==
    \E t, u \in Threads :
        /\ t # u
        /\ Ended(t) /\ Len(cache_calls[t]) = 1
        /\ pc[u] = "line85"

====
